---- MODULE Spec2Model ----
(***************************************************************************)
(* State-machine model of magma's worker pool: the controller-side         *)
(* WorkerPool (src/src/pool/pool.ts) with the callers that use it, the     *)
(* message protocol of one execution unit (worker.ts, worker/helpers.ts)   *)
(* and one Execution Target of executeTask (src/src/pool/Deferred.ts).     *)
(*                                                                         *)
(* The controller is a single-threaded event loop: every pool method runs  *)
(* to completion, so each method (and each event-loop task: a unit's       *)
(* "ready" message, a unit's "error" event, a setTimeout callback) is one  *)
(* atomic action. The three parts have their own variables and their own   *)
(* specifications; the steps of one part leave the others as they are.     *)
(***************************************************************************)
EXTENDS Integers, Sequences, FiniteSets, TLC

\* ------------------------------------------------------------------ bounds
NumUnits == 2          \* the `size` handed to the constructor
NumCallers == 4        \* acquire()/with() calls made during a run
MaxSetPending == 0     \* largest value assigned to maxPending
MaxRequests == 3       \* requests delivered to the unit during a run
MaxProgress == 2       \* progress() calls made during a run
MaxSafeInteger == 2    \* Number.MAX_SAFE_INTEGER, scaled down
MaxDeliveries == 4     \* events a worker fires while a target is observed
MaxSide == 3           \* largest width and height of a grid
MaxCalls == 2          \* calls made on a grid after wrapBuffer
MaxTypeLen == 3        \* longest type string handed to TypeHandler.is

Units == 1..NumUnits
Callers == 1..NumCallers
NoUnit == 0
NoCaller == 0
\* a Worker object the pool never created
ForeignUnit == NumUnits + 1

\* #maxPending = Infinity: larger than any queue length
Infinity == 1000000

\* ------------------------------------------------------------------ state
VARIABLES
  workers,      \* #workers: member units, in insertion order
  available,    \* #available: idle units
  pending,      \* #pending: queue of Deferreds (named by the caller awaiting it)
  maxPending,   \* #maxPending
  timers,       \* setTimeout(..., 0) callbacks not yet run, in firing order
  ustate,       \* per unit: "starting", "failed" (spawn or ready handshake
                \*   failed), "ready", "faulted", "terminated"
  pc,           \* per call: "idle" (not made yet), "waiting", "holding",
                \*   "rejected", "withWaiting", "withTask", "withRejected", "done"
  held,         \* per caller: the unit handed to it (NoUnit if none)
  ret,          \* what the last operation returned or threw
  waitOrder,    \* history: callers with an unsettled Deferred, oldest first
  streak,       \* history: acquire() calls since the pool was all idle (-1: n/a)
  quiet,        \* history: the with() call running undisturbed, and the
                \*          available count when it started
  poolEvents,   \* the 'ready' and 'error' events the pool has dispatched
  \* --- one execution unit (worker.ts)
  busy,         \* `busy`: NotBusy (the value false) or the id of the request
  nextId,       \* the counter `id` inside idGen
  reqs,         \* per request delivered so far: its id, whether its task body
                \*   is executing or it is done, and the progress() calls
                \*   made on its context
  outbox,       \* the messages the unit has posted, oldest first, each with
                \*   the request whose code posted it
  ulast,        \* what the last step of the unit did
  \* --- one call of executeTask (Deferred.ts)
  listening,    \* whether onMessage and onError are attached to the worker
  finished,     \* `finished`
  tevents,      \* the events the target has dispatched, oldest first
  sent,         \* whether the timer has posted the request to the worker
  delivered,    \* history: message and error events the worker has fired
  \* --- library code called directly (worker/buffer.ts, erosion/helpers.ts,
  \*     worker/helpers.ts makeTypeHandler)
  grid,         \* the Buffer2D wrapBuffer returned (NoGrid before the call)
  gcalls,       \* history: calls made on the grid
  lret          \* what the last library call returned or threw

poolVars == <<workers, available, pending, maxPending, timers, ustate>>
callerVars == <<pc, held>>
histVars == <<ret, waitOrder, streak, quiet>>
vars == <<workers, available, pending, maxPending, timers, ustate,
          pc, held, ret, waitOrder, streak, quiet>>

poolSide == <<workers, available, pending, maxPending, timers, ustate,
              pc, held, ret, waitOrder, streak, quiet, poolEvents>>
unitSide == <<busy, nextId, reqs, outbox, ulast>>
targetSide == <<listening, finished, tevents, sent, delivered>>
libSide == <<grid, gcalls, lret>>

\* ---------------------------------------------------------------- helpers
Range(s) == {s[i] : i \in 1..Len(s)}

\* Array.prototype.includes
Includes(s, x) == \E i \in 1..Len(s) : s[i] = x

\* Array.prototype.filter((w) => w !== x)
RECURSIVE Without(_, _)
Without(s, x) ==
  IF s = <<>> THEN <<>>
  ELSE IF Head(s) = x THEN Without(Tail(s), x)
  ELSE <<Head(s)>> \o Without(Tail(s), x)

NoTimer == <<>>
NoWatch == [c |-> NoCaller, avail0 |-> 0]

\* A JS number handed to the maxPending setter: the fraction n/d, with
\* d = 0 for the values that are no fraction (Infinity: n = 1, NaN: n = 0).
Num(n, d) == [n |-> n, d |-> d]
PosInfinity == Num(1, 0)
NaN == Num(0, 0)
NoArg == NaN

Ret(op, c, kind, msg, unit) ==
  [op |-> op, c |-> c, kind |-> kind, msg |-> msg, unit |-> unit,
   errors |-> <<>>, value |-> "", relCalls |-> 0, avail0 |-> -1,
   acqErr |-> "", taskErr |-> "", relErr |-> "", arg |-> NoArg]

\* error messages of pool.ts
ErrNoWorkers == "No workers in pool"
ErrMaxPending == "Max pending requests reached"
ErrNotInPool == "Worker is not in pool"
ErrClosed == "Worker pool closed"
ErrRange == "Max pending must be a non-negative integer"
AggAcquire == "Failed to acquire worker"
AggTask == "Worker task failed"
AggRelease == "Failed to release worker"
\* what a task body produces
TaskValue == "task value"
TaskError == "task error"

\* ------------------------------------------------------- pool.ts, as code
\* acquire with the capacity test made before the idle list is consulted
acquire_capFirst(wk, av, pd, mp, c) ==
  IF Len(wk) = 0
  THEN [kind |-> "throw", msg |-> ErrNoWorkers, unit |-> NoUnit,
        available |-> av, pending |-> pd]
  ELSE IF Len(pd) >= mp
  THEN [kind |-> "throw", msg |-> ErrMaxPending, unit |-> NoUnit,
        available |-> av, pending |-> pd]
  ELSE IF Len(av) > 0
  THEN [kind |-> "return", msg |-> "", unit |-> Head(av),
        available |-> Tail(av), pending |-> pd]
  ELSE [kind |-> "defer", msg |-> "", unit |-> NoUnit,
        available |-> av, pending |-> Append(pd, c)]

\* acquire with the capacity test off by one (> for >=)
acquire_offByOne(wk, av, pd, mp, c) ==
  IF Len(wk) = 0
  THEN [kind |-> "throw", msg |-> ErrNoWorkers, unit |-> NoUnit,
        available |-> av, pending |-> pd]
  ELSE IF Len(av) > 0
  THEN [kind |-> "return", msg |-> "", unit |-> Head(av),
        available |-> Tail(av), pending |-> pd]
  ELSE IF Len(pd) > mp
  THEN [kind |-> "throw", msg |-> ErrMaxPending, unit |-> NoUnit,
        available |-> av, pending |-> pd]
  ELSE [kind |-> "defer", msg |-> "", unit |-> NoUnit,
        available |-> av, pending |-> Append(pd, c)]

\* acquire that creates and queues the Deferred before the capacity test
acquire_phantom(wk, av, pd, mp, c) ==
  IF Len(wk) = 0
  THEN [kind |-> "throw", msg |-> ErrNoWorkers, unit |-> NoUnit,
        available |-> av, pending |-> pd]
  ELSE IF Len(av) > 0
  THEN [kind |-> "return", msg |-> "", unit |-> Head(av),
        available |-> Tail(av), pending |-> pd]
  ELSE IF Len(pd) >= mp
  THEN [kind |-> "throw", msg |-> ErrMaxPending, unit |-> NoUnit,
        available |-> av, pending |-> Append(pd, c)]
  ELSE [kind |-> "defer", msg |-> "", unit |-> NoUnit,
        available |-> av, pending |-> Append(pd, c)]

\* WorkerPool.acquire for the Deferred of caller c
acquire(wk, av, pd, mp, c) ==
  IF Len(wk) = 0
  THEN [kind |-> "throw", msg |-> ErrNoWorkers, unit |-> NoUnit,
        available |-> av, pending |-> pd]
  ELSE IF Len(av) > 0
  THEN [kind |-> "return", msg |-> "", unit |-> Head(av),
        available |-> Tail(av), pending |-> pd]
  ELSE IF Len(pd) >= mp
  THEN [kind |-> "throw", msg |-> ErrMaxPending, unit |-> NoUnit,
        available |-> av, pending |-> pd]
  ELSE [kind |-> "defer", msg |-> "", unit |-> NoUnit,
        available |-> av, pending |-> Append(pd, c)]

\* release that returns the unit to the idle list also when a Deferred waits
release_noHandOff(wk, av, pd, w) ==
  IF ~Includes(wk, w)
  THEN [kind |-> "throw", msg |-> ErrNotInPool,
        available |-> av, pending |-> pd, timer |-> NoTimer]
  ELSE [kind |-> "return", msg |-> "",
        available |-> Append(av, w), pending |-> pd, timer |-> NoTimer]

\* release that schedules the hand-off but leaves the Deferred in the queue
release_keepQueue(wk, av, pd, w) ==
  IF ~Includes(wk, w)
  THEN [kind |-> "throw", msg |-> ErrNotInPool,
        available |-> av, pending |-> pd, timer |-> NoTimer]
  ELSE IF Len(pd) > 0
  THEN [kind |-> "return", msg |-> "",
        available |-> av, pending |-> pd,
        timer |-> <<[d |-> Head(pd), w |-> w]>>]
  ELSE [kind |-> "return", msg |-> "",
        available |-> Append(av, w), pending |-> pd, timer |-> NoTimer]

\* release without the membership test
release_anyUnit(wk, av, pd, w) ==
  IF Len(pd) > 0
  THEN [kind |-> "return", msg |-> "",
        available |-> av, pending |-> Tail(pd),
        timer |-> <<[d |-> Head(pd), w |-> w]>>]
  ELSE [kind |-> "return", msg |-> "",
        available |-> Append(av, w), pending |-> pd, timer |-> NoTimer]

\* release that puts the unit on the idle list also when it hands it off
release_alsoIdle(wk, av, pd, w) ==
  IF ~Includes(wk, w)
  THEN [kind |-> "throw", msg |-> ErrNotInPool,
        available |-> av, pending |-> pd, timer |-> NoTimer]
  ELSE IF Len(pd) > 0
  THEN [kind |-> "return", msg |-> "",
        available |-> Append(av, w), pending |-> Tail(pd),
        timer |-> <<[d |-> Head(pd), w |-> w]>>]
  ELSE [kind |-> "return", msg |-> "",
        available |-> Append(av, w), pending |-> pd, timer |-> NoTimer]

\* release that takes the newest Deferred (pop) instead of the oldest (shift)
release_lifo(wk, av, pd, w) ==
  IF ~Includes(wk, w)
  THEN [kind |-> "throw", msg |-> ErrNotInPool,
        available |-> av, pending |-> pd, timer |-> NoTimer]
  ELSE IF Len(pd) > 0
  THEN [kind |-> "return", msg |-> "",
        available |-> av, pending |-> SubSeq(pd, 1, Len(pd) - 1),
        timer |-> <<[d |-> pd[Len(pd)], w |-> w]>>]
  ELSE [kind |-> "return", msg |-> "",
        available |-> Append(av, w), pending |-> pd, timer |-> NoTimer]

\* WorkerPool.release
release(wk, av, pd, w) ==
  IF ~Includes(wk, w)
  THEN [kind |-> "throw", msg |-> ErrNotInPool,
        available |-> av, pending |-> pd, timer |-> NoTimer]
  ELSE IF Len(pd) > 0
  THEN [kind |-> "return", msg |-> "",
        available |-> av, pending |-> Tail(pd),
        timer |-> <<[d |-> Head(pd), w |-> w]>>]
  ELSE [kind |-> "return", msg |-> "",
        available |-> Append(av, w), pending |-> pd, timer |-> NoTimer]

\* Number.isInteger
isInteger(x) == x.d # 0 /\ x.n % x.d = 0

\* x < 0 (false for NaN)
isNegative(x) == x.n < 0

\* setter that tests the sign only
setMaxPending_signOnly(mp, x) ==
  IF isNegative(x)
  THEN [kind |-> "throw", msg |-> ErrRange, maxPending |-> mp]
  ELSE [kind |-> "return", msg |-> "",
        maxPending |-> IF x.d = 0 THEN Infinity ELSE x.n \div x.d]

\* WorkerPool.maxPending (the setter)
setMaxPending(mp, x) ==
  IF ~isInteger(x) \/ isNegative(x)
  THEN [kind |-> "throw", msg |-> ErrRange, maxPending |-> mp]
  ELSE [kind |-> "return", msg |-> "", maxPending |-> x.n \div x.d]

\* WorkerPool.with, when acquire() failed with error e: the inner catch wraps
\* it, and the finally block finds `worker` undefined and releases nothing
withAcquireFailed(e) ==
  [kind |-> "throw", msg |-> AggAcquire, errors |-> <<e>>, value |-> "",
   relCalls |-> 0]

\* with() that releases after the task instead of in a finally block
withExit_noFinally(wk, av, pd, w, out) ==
  LET rel == release(wk, av, pd, w) IN
  IF out = "throw"
  THEN [kind |-> "throw", msg |-> AggTask, errors |-> <<TaskError>>,
        value |-> "", relCalls |-> 0,
        available |-> av, pending |-> pd, timer |-> NoTimer]
  ELSE IF rel.kind = "throw"
  THEN [kind |-> "throw", msg |-> AggRelease, errors |-> <<rel.msg>>,
        value |-> "", relCalls |-> 1,
        available |-> rel.available, pending |-> rel.pending,
        timer |-> rel.timer]
  ELSE [kind |-> "return", msg |-> "", errors |-> <<>>,
        value |-> TaskValue, relCalls |-> 1,
        available |-> rel.available, pending |-> rel.pending,
        timer |-> rel.timer]

\* with() that wraps a task failure under the acquire phase's message
withExit_wrongPhase(wk, av, pd, w, out) ==
  LET rel == release(wk, av, pd, w) IN
  IF rel.kind = "throw"
  THEN [kind |-> "throw", msg |-> AggRelease, errors |-> <<rel.msg>>,
        value |-> "", relCalls |-> 1,
        available |-> rel.available, pending |-> rel.pending,
        timer |-> rel.timer]
  ELSE IF out = "throw"
  THEN [kind |-> "throw", msg |-> AggAcquire, errors |-> <<TaskError>>,
        value |-> "", relCalls |-> 1,
        available |-> rel.available, pending |-> rel.pending,
        timer |-> rel.timer]
  ELSE [kind |-> "return", msg |-> "", errors |-> <<>>,
        value |-> TaskValue, relCalls |-> 1,
        available |-> rel.available, pending |-> rel.pending,
        timer |-> rel.timer]

\* WorkerPool.with, from the moment task(worker) settles with `out`
\* ("return" or "throw"): inner catch, finally { release }, return result
withExit(wk, av, pd, w, out) ==
  LET rel == release(wk, av, pd, w) IN
  IF rel.kind = "throw"
  THEN [kind |-> "throw", msg |-> AggRelease, errors |-> <<rel.msg>>,
        value |-> "", relCalls |-> 1,
        available |-> rel.available, pending |-> rel.pending,
        timer |-> rel.timer]
  ELSE IF out = "throw"
  THEN [kind |-> "throw", msg |-> AggTask, errors |-> <<TaskError>>,
        value |-> "", relCalls |-> 1,
        available |-> rel.available, pending |-> rel.pending,
        timer |-> rel.timer]
  ELSE [kind |-> "return", msg |-> "", errors |-> <<>>,
        value |-> TaskValue, relCalls |-> 1,
        available |-> rel.available, pending |-> rel.pending,
        timer |-> rel.timer]

\* close without the early return on an empty unit list
close_noGuard(wk, av, pd) ==
  [kind |-> "done", workers |-> <<>>, available |-> <<>>,
   pending |-> <<>>, terminated |-> Range(wk), rejected |-> Range(pd)]

\* WorkerPool.close: the collections it leaves, the units it terminates and
\* the Deferreds it rejects
close(wk, av, pd) ==
  IF Len(wk) = 0
  THEN [kind |-> "noop", workers |-> wk, available |-> av, pending |-> pd,
        terminated |-> {}, rejected |-> {}]
  ELSE [kind |-> "done", workers |-> <<>>, available |-> <<>>,
        pending |-> <<>>, terminated |-> Range(wk), rejected |-> Range(pd)]

\* the error listener installed by #createWorker
onWorkerError(wk, av, u) ==
  [workers |-> Without(wk, u), available |-> Without(av, u)]

\* --------------------------------------------------------- history helpers
AllIdle(wk, av, pd) == Len(wk) = NumUnits /\ Len(av) = NumUnits /\ pd = <<>>

\* streak after an operation that is not an acquire()
Restart(wk, av, pd) == IF AllIdle(wk, av, pd) THEN 0 ELSE -1

\* streak after an acquire()
Extend(k) == IF k >= 0 /\ k <= NumUnits THEN k + 1 ELSE -1

Waiting(c) == pc[c] \in {"waiting", "withWaiting"}

\* Calls and units are interchangeable, so the calls are numbered in the order
\* they are made and the units in the order they report: every other run is a
\* renaming of one of these.
FreeSite(c) == pc[c] = "idle" /\ \A b \in Callers : b < c => pc[b] # "idle"
NextStarting(u) ==
  ustate[u] = "starting" /\ \A v \in Units : v < u => ustate[v] # "starting"

\* The promise of one #createWorker call, read off the unit's state
created(us, u) == CASE us[u] = "starting" -> "pending"
                    [] us[u] = "failed" -> "rejected"
                    [] OTHER -> "fulfilled"

\* Promise.all that settles as soon as one promise is fulfilled
promiseAll_first(us) ==
  IF \E u \in Units : created(us, u) = "rejected" THEN "rejected"
  ELSE IF \E u \in Units : created(us, u) = "fulfilled" THEN "fulfilled"
  ELSE "pending"

\* Promise.all over the #createWorker promises of the constructor
promiseAll(us) ==
  IF \E u \in Units : created(us, u) = "rejected" THEN "rejected"
  ELSE IF \A u \in Units : created(us, u) = "fulfilled" THEN "fulfilled"
  ELSE "pending"

\* the then/catch chain of the constructor, run when Promise.all settles
\* (a promise settles once: only the step from "pending" counts)
constructorSettled(ev, before, after) ==
  IF before = "pending" /\ after = "fulfilled" THEN Append(ev, "ready")
  ELSE IF before = "pending" /\ after = "rejected" THEN Append(ev, "error")
  ELSE ev

\* --------------------------------------- the execution unit (worker.ts)
\* Strings that the code takes apart are sequences of characters. The names
\* of the registry are abbreviated to one letter: the categories "terrain"
\* (t) and "erosion" (e), the tasks "generate" (g), "heightmap" (h),
\* "thermal" (m) and "hydraulic" (y).
Terrain == <<"t">>
Erosion == <<"e">>
Generate == <<"g">>
Heightmap == <<"h">>
Thermal == <<"m">>
Hydraulic == <<"y">>

\* the value `undefined`, where a string is expected
Undefined == <<"undefined">>

\* the handlers Map of makeHandler, as filled by worker.ts: its keys
handlers == {Terrain, Erosion}

\* the tasks Map inside the TypeHandler of a category: its keys
tasks(category) == CASE category = Terrain -> {Generate, Heightmap}
                     [] category = Erosion -> {Thermal, Hydraulic}
                     [] OTHER -> {}

\* String.prototype.split("/")
RECURSIVE split(_)
split(str) ==
  IF str = <<>> THEN << <<>> >>
  ELSE IF Head(str) = "/" THEN << <<>> >> \o split(Tail(str))
  ELSE LET rest == split(Tail(str)) IN
       << <<Head(str)>> \o Head(rest) >> \o Tail(rest)

\* Handler.getHandler: handlers.get(type.split("/")[0])
getHandler(type) ==
  LET key == split(type)[1] IN
  IF key \in handlers THEN key ELSE Undefined

\* const [, subType] = type.split("/")
subTypeOf(type) ==
  LET parts == split(type) IN
  IF Len(parts) >= 2 THEN parts[2] ELSE Undefined

\* TypeHandler.get: tasks.get(type)
handlerGet(category, subType) ==
  IF subType \in tasks(category) THEN subType ELSE Undefined

\* the value false of `busy`
NotBusy == -1
\* no id was drawn for the request
NoId == -1

\* `if (busy)`: false and 0 are falsy
truthy(b) == b # NotBusy /\ b # 0

\* id generator that wraps one call late: it hands out the maximum itself
getID_late(id) ==
  LET cur == IF id > MaxSafeInteger THEN 0 ELSE id IN
  [value |-> cur, id |-> cur + 1]

\* the function idGen returns, on the counter `id`: the id it returns and
\* the counter afterwards
getID(id) ==
  LET cur == IF id = MaxSafeInteger THEN 0 ELSE id IN
  [value |-> cur, id |-> cur + 1]

\* `duration` undefined
NoDuration == -1
\* performance.now() - context.start for the context of request r: the time
\* elapsed since that context was built, named by the request
Elapsed(r) == r

\* error messages of worker.ts and helpers.ts
ErrBusy == <<"Worker is busy">>
ErrNotActive == <<"Task is not active">>
ErrUnknown == <<"An unknown error occurred">>
MissingHandler(type) == <<"Missing handler for type: ">> \o type
MissingTask(type) == <<"Missing task for type: ">> \o type

\* what a task body can throw: an Error with a message, or another value
TaskFailure == [isError |-> TRUE, message |-> <<"task failed">>]
NotAnError == [isError |-> FALSE, message |-> <<>>]
NoThrow == [isError |-> FALSE, message |-> <<"none">>]
\* error instanceof Error ? error.message : "An unknown error occurred"
messageOf(error) == IF error.isError THEN error.message ELSE ErrUnknown

\* createError
createError(message, duration) ==
  [type |-> "error", payload |-> [message |-> message, duration |-> duration]]

\* createResult: the ResultDetail itself, an object without a `type`
createResult(result, duration) == [result |-> result, duration |-> duration]

\* event.data.type as the receiver reads it
typeOf(data) == IF "type" \in DOMAIN data THEN data.type ELSE "undefined"

\* onMessage that dispatches "start" before it looks the task up
onMessageEnter_startFirst(b, gen, type) ==
  IF truthy(b)
  THEN [kind |-> "throw", msg |-> ErrBusy, busy |-> NotBusy, gen |-> gen,
        id |-> NoId, posted |-> <<createError(ErrBusy, NoDuration)>>]
  ELSE LET g == getID(gen)
           handler == getHandler(type)
           task == handlerGet(handler, subTypeOf(type)) IN
       IF handler = Undefined
       THEN [kind |-> "throw", msg |-> MissingHandler(type),
             busy |-> NotBusy, gen |-> g.id, id |-> g.value,
             posted |-> <<[type |-> "start"],
                          createError(MissingHandler(type), NoDuration)>>]
       ELSE IF task = Undefined
       THEN [kind |-> "throw", msg |-> MissingTask(type),
             busy |-> NotBusy, gen |-> g.id, id |-> g.value,
             posted |-> <<[type |-> "start"],
                          createError(MissingTask(type), NoDuration)>>]
       ELSE [kind |-> "run", msg |-> <<>>, busy |-> g.value, gen |-> g.id,
             id |-> g.value, posted |-> <<[type |-> "start"]>>]

\* onMessage from its entry to the call of the task body (kind "run": the
\* body is executing), or to its end when it throws before (kind "throw":
\* the catch block posts the error, the finally block clears busy)
onMessageEnter(b, gen, type) ==
  IF truthy(b)
  THEN [kind |-> "throw", msg |-> ErrBusy, busy |-> NotBusy, gen |-> gen,
        id |-> NoId, posted |-> <<createError(ErrBusy, NoDuration)>>]
  ELSE LET g == getID(gen)
           handler == getHandler(type)
           task == handlerGet(handler, subTypeOf(type)) IN
       IF handler = Undefined
       THEN [kind |-> "throw", msg |-> MissingHandler(type),
             busy |-> NotBusy, gen |-> g.id, id |-> g.value,
             posted |-> <<createError(MissingHandler(type), NoDuration)>>]
       ELSE IF task = Undefined
       THEN [kind |-> "throw", msg |-> MissingTask(type),
             busy |-> NotBusy, gen |-> g.id, id |-> g.value,
             posted |-> <<createError(MissingTask(type), NoDuration)>>]
       ELSE [kind |-> "run", msg |-> <<>>, busy |-> g.value, gen |-> g.id,
             id |-> g.value, posted |-> <<[type |-> "start"]>>]

\* progress that posts whatever request the unit is serving
progress_unguarded(b, id, r) ==
  [kind |-> "return", msg |-> <<>>,
   posted |-> <<[type |-> "progress",
                 payload |-> [progress |-> "detail",
                              duration |-> Elapsed(r)]]>>]

\* Context.progress of the context built for request r with id `id`
progress(b, id, r) ==
  IF b # id
  THEN [kind |-> "throw", msg |-> ErrNotActive, posted |-> <<>>]
  ELSE [kind |-> "return", msg |-> <<>>,
        posted |-> <<[type |-> "progress",
                      payload |-> [progress |-> "detail",
                                   duration |-> Elapsed(r)]]>>]

\* onMessage whose finally block is skipped when the body throws
onMessageLeave_stuck(b, r, out, error) ==
  IF out = "return"
  THEN [busy |-> NotBusy, posted |-> <<createResult("value", Elapsed(r))>>]
  ELSE [busy |-> b,
        posted |-> <<createError(messageOf(error), Elapsed(r))>>]

\* onMessage that reports a failed body without its duration
onMessageLeave_noDuration(b, r, out, error) ==
  IF out = "return"
  THEN [busy |-> NotBusy, posted |-> <<createResult("value", Elapsed(r))>>]
  ELSE [busy |-> NotBusy,
        posted |-> <<createError(messageOf(error), NoDuration)>>]

\* onMessage after the task body of request r returned (out = "return") or
\* threw `error` (out = "throw"): the inner finally block measures the
\* duration, the result or the error is posted, the outer finally block
\* clears busy
onMessageLeave(b, r, out, error) ==
  IF out = "return"
  THEN [busy |-> NotBusy, posted |-> <<createResult("value", Elapsed(r))>>]
  ELSE [busy |-> NotBusy,
        posted |-> <<createError(messageOf(error), Elapsed(r))>>]

\* the messages `posted` by the code of request r, as outbox entries
Post(r, posted) == [i \in 1..Len(posted) |-> [req |-> r, data |-> posted[i]]]

\* the requests whose task body is executing; the innermost is the newest
Running == {r \in 1..Len(reqs) : reqs[r].state = "running"}
Innermost == CHOOSE r \in Running : \A q \in Running : q <= r

\* the progress() calls made so far
RECURSIVE SumCalls(_)
SumCalls(n) == IF n = 0 THEN 0 ELSE reqs[n].calls + SumCalls(n - 1)
Calls == SumCalls(Len(reqs))

ULast(op, r, kind, msg, type, outer, error) ==
  [op |-> op, req |-> r, kind |-> kind, msg |-> msg, type |-> type,
   outer |-> outer, error |-> error]

UnitInit ==
  /\ busy = NotBusy
  /\ nextId = 0
  /\ reqs = <<>>
  /\ outbox = <<>>
  /\ ulast = ULast("load", 0, "return", <<>>, <<>>, 0, NoThrow)

\* ------------------------------------------- executeTask (Deferred.ts)
ErrInvalid == <<"Invalid message received">>
\* the error carried by the worker's error event
ErrFault == <<"worker fault">>

\* an event dispatched on the target, with the message of its error if any
TargetEvent(type, message) == [type |-> type, message |-> message]

\* onMessage that leaves the listeners attached when the result arrives
executeOnMessage_keep(l, f, ev, data) ==
  CASE typeOf(data) = "start" ->
         [listening |-> l, finished |-> f,
          events |-> Append(ev, TargetEvent("start", <<>>))]
    [] typeOf(data) = "progress" ->
         [listening |-> l, finished |-> f,
          events |-> Append(ev, TargetEvent("progress", <<>>))]
    [] typeOf(data) = "result" ->
         [listening |-> l, finished |-> TRUE,
          events |-> Append(ev, TargetEvent("result", <<>>))]
    [] OTHER ->
         [listening |-> FALSE, finished |-> TRUE,
          events |-> Append(ev,
                       TargetEvent("error",
                                   IF typeOf(data) = "error"
                                   THEN data.payload.message
                                   ELSE ErrInvalid))]

\* executeTask's onMessage, called with event.data = data
executeOnMessage(l, f, ev, data) ==
  CASE typeOf(data) = "start" ->
         [listening |-> l, finished |-> f,
          events |-> Append(ev, TargetEvent("start", <<>>))]
    [] typeOf(data) = "progress" ->
         [listening |-> l, finished |-> f,
          events |-> Append(ev, TargetEvent("progress", <<>>))]
    [] typeOf(data) = "result" ->
         [listening |-> FALSE, finished |-> TRUE,
          events |-> Append(ev, TargetEvent("result", <<>>))]
    [] OTHER ->
         [listening |-> FALSE, finished |-> TRUE,
          events |-> Append(ev,
                       TargetEvent("error",
                                   IF typeOf(data) = "error"
                                   THEN data.payload.message
                                   ELSE ErrInvalid))]

\* executeTask's onError
executeOnError(l, f, ev) ==
  [listening |-> FALSE, finished |-> f,
   events |-> Append(ev, TargetEvent("error", ErrFault))]

\* the state executeTask returns in
TargetInit ==
  /\ listening = TRUE
  /\ finished = FALSE
  /\ tevents = <<>>
  /\ sent = FALSE
  /\ delivered = 0

\* ------------------------------------- the grid buffer (worker/buffer.ts)
\* The storage is a Uint8Array: a sequence of bytes, element i of the array
\* at position i + 1.
NoGrid == [size |-> <<0, 0>>, buffer |-> <<>>]
\* what reading a typed array outside its length gives (undefined)
UndefinedValue == -1
ErrIndex == "Index out of bounds"
ErrLength == "Buffer length does not match size"

\* the conversion a Uint8Array applies to a number it stores
ToUint8(v) == v % 256

\* buffer[index]
ReadAt(buffer, index) ==
  IF index \in 0..(Len(buffer) - 1) THEN buffer[index + 1] ELSE UndefinedValue

\* buffer[index] = value (a write outside the length is ignored)
WriteAt(buffer, index, value) ==
  IF index \in 0..(Len(buffer) - 1)
  THEN [buffer EXCEPT ![index + 1] = ToUint8(value)]
  ELSE buffer

\* wrapBuffer: the length test; the object keeps `size` and `buffer`
wrapBuffer(buffer, size) ==
  IF Len(buffer) # size[1] * size[2]
  THEN [kind |-> "throw", msg |-> ErrLength, grid |-> NoGrid]
  ELSE [kind |-> "return", msg |-> "",
        grid |-> [size |-> size, buffer |-> buffer]]

\* Buffer2D.isInBounds
isInBounds(g, x, y) ==
  x >= 0 /\ x < g.size[1] /\ y >= 0 /\ y < g.size[2]

\* getIndex that never checks the bounds
getIndex_unchecked(g, x, y, noCheck) ==
  [kind |-> "return", msg |-> "", value |-> x + y * g.size[1]]

\* getIndex that numbers the cells column by column
getIndex_columns(g, x, y, noCheck) ==
  IF ~noCheck /\ ~isInBounds(g, x, y)
  THEN [kind |-> "throw", msg |-> ErrIndex, value |-> UndefinedValue]
  ELSE [kind |-> "return", msg |-> "", value |-> y + x * g.size[2]]

\* Buffer2D.getIndex
getIndex(g, x, y, noCheck) ==
  IF ~noCheck /\ ~isInBounds(g, x, y)
  THEN [kind |-> "throw", msg |-> ErrIndex, value |-> UndefinedValue]
  ELSE [kind |-> "return", msg |-> "", value |-> x + y * g.size[1]]

\* Buffer2D.get
get(g, x, y, noCheck) ==
  LET i == getIndex(g, x, y, noCheck) IN
  IF i.kind = "throw" THEN i
  ELSE [kind |-> "return", msg |-> "", value |-> ReadAt(g.buffer, i.value)]

\* Buffer2D.set: the storage afterwards
set(g, x, y, value, noCheck) ==
  LET i == getIndex(g, x, y, noCheck) IN
  IF i.kind = "throw"
  THEN [kind |-> "throw", msg |-> ErrIndex, buffer |-> g.buffer]
  ELSE [kind |-> "return", msg |-> "",
        buffer |-> WriteAt(g.buffer, i.value, value)]

\* the immediate neighbors of a cell: left, right, top, bottom
neighbors == << <<-1, 0>>, <<1, 0>>, <<0, -1>>, <<0, 1>> >>

\* getNeighbors that yields all four offsets
getNeighbors_all(g, point) ==
  [i \in 1..Len(neighbors) |->
     [x |-> point.x + neighbors[i][1], y |-> point.y + neighbors[i][2],
      value |-> get(g, point.x + neighbors[i][1],
                    point.y + neighbors[i][2], TRUE).value]]

\* getNeighbors: the cells it yields, in order
getNeighbors(g, point) ==
  LET inside == SelectSeq(neighbors,
                          LAMBDA d : isInBounds(g, point.x + d[1],
                                                point.y + d[2])) IN
  [i \in 1..Len(inside) |->
     [x |-> point.x + inside[i][1], y |-> point.y + inside[i][2],
      value |-> get(g, point.x + inside[i][1],
                    point.y + inside[i][2], TRUE).value]]

\* --------------------------------- TypeHandler.is (worker/helpers.ts)
\* String.prototype.startsWith
startsWith(str, prefix) ==
  Len(prefix) <= Len(str) /\ SubSeq(str, 1, Len(prefix)) = prefix

\* TypeHandler.is of the handler made by makeTypeHandler(handlerType): the
\* parameter is named `type` like the handler's, so the template literal
\* `${type}/` is built from the argument
is(handlerType, type) == startsWith(type, type \o <<"/">>)

\* a library call, its arguments and its outcome
LRet(op, args, kind, msg, value) ==
  [op |-> op, args |-> args, kind |-> kind, msg |-> msg, value |-> value]

LibInit ==
  /\ grid = NoGrid
  /\ gcalls = 0
  /\ lret = LRet("none", <<>>, "return", "", 0)

\* ------------------------------------------------------------------- Init
Init ==
  /\ workers = <<>>
  /\ available = <<>>
  /\ pending = <<>>
  /\ maxPending = Infinity
  /\ timers = <<>>
  /\ ustate = [u \in Units |-> "starting"]
  /\ pc = [c \in Callers |-> "idle"]
  /\ held = [c \in Callers |-> NoUnit]
  /\ ret = Ret("new", NoCaller, "return", "", NoUnit)
  /\ waitOrder = <<>>
  /\ streak = -1
  /\ quiet = NoWatch
  /\ poolEvents = <<>>
  /\ UnitInit
  /\ TargetInit
  /\ LibInit

\* ---------------------------------------------------------------- actions
\* #createWorker after waitForReady resolved: the unit joins the pool, idle.
\* A unit whose ready handshake fails never joins: for the pool's collections
\* it is a unit that stays "starting".
WorkerReady(u) ==
  /\ NextStarting(u)
  /\ ustate' = [ustate EXCEPT ![u] = "ready"]
  /\ workers' = Append(workers, u)
  /\ available' = Append(available, u)
  /\ poolEvents' = constructorSettled(poolEvents, promiseAll(ustate),
                                      promiseAll(ustate'))
  /\ ret' = Ret("event", NoCaller, "return", "", NoUnit)
  /\ streak' = Restart(workers', available', pending)
  /\ quiet' = NoWatch
  /\ UNCHANGED <<pending, maxPending, timers, pc, held, waitOrder>>
  /\ UNCHANGED unitSide
  /\ UNCHANGED targetSide
  /\ UNCHANGED libSide

\* a member unit's error event fires
WorkerError(u) ==
  /\ ustate[u] = "ready"
  /\ LET r == onWorkerError(workers, available, u) IN
       /\ workers' = r.workers
       /\ available' = r.available
  /\ ustate' = [ustate EXCEPT ![u] = "faulted"]
  /\ ret' = Ret("event", NoCaller, "return", "", NoUnit)
  /\ streak' = Restart(workers', available', pending)
  /\ quiet' = NoWatch
  /\ UNCHANGED <<pending, maxPending, timers, pc, held, waitOrder>>
  /\ UNCHANGED poolEvents
  /\ UNCHANGED unitSide
  /\ UNCHANGED targetSide
  /\ UNCHANGED libSide

\* set maxPending(value), value an integer
SetMaxPending(v) ==
  /\ IF v < 0
     THEN /\ ret' = Ret("setMaxPending", NoCaller, "throw", "RangeError", NoUnit)
          /\ UNCHANGED maxPending
     ELSE /\ ret' = Ret("setMaxPending", NoCaller, "return", "", NoUnit)
          /\ maxPending' = v
  /\ quiet' = NoWatch
  /\ UNCHANGED <<workers, available, pending, timers, ustate, pc, held,
                 waitOrder, streak>>
  /\ UNCHANGED poolEvents
  /\ UNCHANGED unitSide
  /\ UNCHANGED targetSide
  /\ UNCHANGED libSide

\* a caller calls acquire()
Acquire(c) ==
  /\ FreeSite(c)
  /\ LET r == acquire(workers, available, pending, maxPending, c) IN
       /\ available' = r.available
       /\ pending' = r.pending
       /\ pc' = [pc EXCEPT ![c] = CASE r.kind = "return" -> "holding"
                                    [] r.kind = "defer" -> "waiting"
                                    [] OTHER -> "done"]
       /\ held' = [held EXCEPT ![c] = r.unit]
       /\ ret' = [Ret("acquire", c, r.kind, r.msg, r.unit)
                    EXCEPT !.acqErr = r.msg]
       /\ waitOrder' = IF r.kind = "defer" THEN Append(waitOrder, c)
                       ELSE waitOrder
  /\ streak' = Extend(streak)
  /\ quiet' = NoWatch
  /\ UNCHANGED <<workers, maxPending, timers, ustate>>
  /\ UNCHANGED poolEvents
  /\ UNCHANGED unitSide
  /\ UNCHANGED targetSide
  /\ UNCHANGED libSide

\* a caller calls release() on the unit it holds
Release(c) ==
  /\ pc[c] = "holding"
  /\ LET r == release(workers, available, pending, held[c]) IN
       /\ available' = r.available
       /\ pending' = r.pending
       /\ timers' = timers \o r.timer
       /\ ret' = Ret("release", c, r.kind, r.msg, held[c])
  /\ pc' = [pc EXCEPT ![c] = "done"]
  /\ held' = [held EXCEPT ![c] = NoUnit]
  /\ streak' = Restart(workers, available', pending')
  /\ quiet' = NoWatch
  /\ UNCHANGED <<workers, maxPending, ustate, waitOrder>>
  /\ UNCHANGED poolEvents
  /\ UNCHANGED unitSide
  /\ UNCHANGED targetSide
  /\ UNCHANGED libSide

\* the callback release() gave to setTimeout runs: deferred.resolve(worker).
\* Callbacks with the same delay run in the order they were scheduled.
TimerFire ==
  /\ timers # <<>>
  /\ LET t == Head(timers) IN
       IF Waiting(t.d)
       THEN /\ pc' = [pc EXCEPT ![t.d] = IF pc[t.d] = "waiting" THEN "holding"
                                         ELSE "withTask"]
            /\ held' = [held EXCEPT ![t.d] = t.w]
            /\ ret' = Ret("fulfil", t.d, "return", "", t.w)
            /\ waitOrder' = Without(waitOrder, t.d)
       ELSE \* the Deferred is already settled: resolve() is ignored
            /\ ret' = Ret("fulfil", t.d, "ignored", "", t.w)
            /\ UNCHANGED <<pc, held, waitOrder>>
  /\ timers' = Tail(timers)
  /\ streak' = Restart(workers, available, pending)
  /\ quiet' = NoWatch
  /\ UNCHANGED <<workers, available, pending, maxPending, ustate>>
  /\ UNCHANGED poolEvents
  /\ UNCHANGED unitSide
  /\ UNCHANGED targetSide
  /\ UNCHANGED libSide

\* close(). A plain acquire() call that close() rejects ends there
\* ("rejected"); a with() call goes on to wrap the rejection (WithRejected).
Close ==
  /\ LET r == close(workers, available, pending) IN
       /\ workers' = r.workers
       /\ available' = r.available
       /\ pending' = r.pending
       /\ ustate' = [u \in Units |-> IF u \in r.terminated THEN "terminated"
                                     ELSE ustate[u]]
       /\ pc' = [c \in Callers |->
                   IF c \in r.rejected /\ Waiting(c)
                   THEN (IF pc[c] = "waiting" THEN "rejected"
                         ELSE "withRejected")
                   ELSE pc[c]]
       /\ waitOrder' = SelectSeq(waitOrder,
                                 LAMBDA c : ~(c \in r.rejected /\ Waiting(c)))
       /\ ret' = Ret("close", NoCaller, r.kind, "", NoUnit)
  /\ streak' = Restart(workers', available', pending')
  /\ quiet' = NoWatch
  /\ UNCHANGED <<maxPending, timers, held>>
  /\ UNCHANGED poolEvents
  /\ UNCHANGED unitSide
  /\ UNCHANGED targetSide
  /\ UNCHANGED libSide

\* a caller calls with(task): the call runs up to `await this.acquire()`
WithStart(c) ==
  /\ FreeSite(c)
  /\ LET r == acquire(workers, available, pending, maxPending, c) IN
       /\ available' = r.available
       /\ pending' = r.pending
       /\ pc' = [pc EXCEPT ![c] = CASE r.kind = "return" -> "withTask"
                                    [] r.kind = "defer" -> "withWaiting"
                                    [] OTHER -> "done"]
       /\ held' = [held EXCEPT ![c] = r.unit]
       /\ waitOrder' = IF r.kind = "defer" THEN Append(waitOrder, c)
                       ELSE waitOrder
       /\ IF r.kind = "throw"
          THEN LET w == withAcquireFailed(r.msg) IN
               ret' = [Ret("with", c, w.kind, w.msg, NoUnit)
                         EXCEPT !.errors = w.errors, !.relCalls = w.relCalls,
                                !.acqErr = r.msg]
          ELSE ret' = Ret("withAcquire", c, r.kind, r.msg, r.unit)
       /\ quiet' = IF r.kind = "return" /\ pending = <<>> /\ timers = <<>>
                   THEN [c |-> c, avail0 |-> Len(available)]
                   ELSE NoWatch
  /\ streak' = Extend(streak)
  /\ UNCHANGED <<workers, maxPending, timers, ustate>>
  /\ UNCHANGED poolEvents
  /\ UNCHANGED unitSide
  /\ UNCHANGED targetSide
  /\ UNCHANGED libSide

\* with(task) whose acquire() was rejected by close()
WithRejected(c) ==
  /\ pc[c] = "withRejected"
  /\ pc' = [pc EXCEPT ![c] = "done"]
  /\ LET w == withAcquireFailed(ErrClosed) IN
       ret' = [Ret("with", c, w.kind, w.msg, NoUnit)
                 EXCEPT !.errors = w.errors, !.relCalls = w.relCalls,
                        !.acqErr = ErrClosed]
  /\ quiet' = NoWatch
  /\ UNCHANGED <<workers, available, pending, maxPending, timers, ustate,
                 held, waitOrder, streak>>
  /\ UNCHANGED poolEvents
  /\ UNCHANGED unitSide
  /\ UNCHANGED targetSide
  /\ UNCHANGED libSide

\* task(worker) settles (out = "return" or "throw") and with() finishes
WithExit(c, out) ==
  /\ pc[c] = "withTask"
  /\ LET w == withExit(workers, available, pending, held[c], out) IN
       /\ available' = w.available
       /\ pending' = w.pending
       /\ timers' = timers \o w.timer
       /\ ret' = [Ret("with", c, w.kind, w.msg, held[c])
                    EXCEPT !.errors = w.errors, !.value = w.value,
                           !.relCalls = w.relCalls,
                           !.avail0 = IF quiet.c = c THEN quiet.avail0 ELSE -1,
                           !.taskErr = IF out = "throw" THEN TaskError ELSE "",
                           !.relErr = IF held[c] \in Range(workers) THEN ""
                                      ELSE ErrNotInPool]
  /\ pc' = [pc EXCEPT ![c] = "done"]
  /\ held' = [held EXCEPT ![c] = NoUnit]
  /\ streak' = Restart(workers, available', pending')
  /\ quiet' = NoWatch
  /\ UNCHANGED <<workers, maxPending, ustate, waitOrder>>
  /\ UNCHANGED poolEvents
  /\ UNCHANGED unitSide
  /\ UNCHANGED targetSide
  /\ UNCHANGED libSide

Next ==
  \/ \E u \in Units : WorkerReady(u)
  \/ \E u \in Units : WorkerError(u)
  \/ \E v \in 0..MaxSetPending : SetMaxPending(v)
  \/ \E c \in Callers : Acquire(c)
  \/ \E c \in Callers : Release(c)
  \/ TimerFire
  \/ Close
  \/ \E c \in Callers : WithStart(c)
  \/ \E c \in Callers : WithRejected(c)
  \/ \E c \in Callers : \E out \in {"return", "throw"} : WithExit(c, out)

Spec == Init /\ [][Next]_vars

\* ------------------------------------------------ the unit's state machine
\* The type strings of the requests delivered
TypeInputs ==
  { <<>>, <<"t">>, <<"x">>, <<"t", "/">>, <<"t", "/", "g">>,
    <<"e", "/", "y">>, <<"e", "/", "g">>, <<"x", "/", "g">> }

\* onMessage(event) is called with a request of the given type: by the
\* message event when no task body is executing, or from inside the task
\* body that is executing (onMessage is synchronous, so this is the only way
\* a request reaches the unit mid-task). The step ends where the task body
\* starts, or where onMessage ends if the body is never called.
Deliver(type) ==
  /\ Len(reqs) < MaxRequests
  /\ LET r == Len(reqs) + 1
         e == onMessageEnter(busy, nextId, type)
         outer == IF Running = {} THEN 0 ELSE Innermost IN
       /\ busy' = e.busy
       /\ nextId' = e.gen
       /\ outbox' = outbox \o Post(r, e.posted)
       /\ reqs' = Append(reqs, [id |-> e.id, ctx |-> e.kind = "run",
                                state |-> IF e.kind = "run" THEN "running"
                                          ELSE "done",
                                calls |-> 0])
       /\ ulast' = ULast("deliver", r, e.kind, e.msg, type, outer, NoThrow)
  /\ UNCHANGED poolSide
  /\ UNCHANGED targetSide
  /\ UNCHANGED libSide

\* progress() is called on the context of request r: by its task body, or,
\* the context being an object the body can hand on, by any code that runs
\* later
Progress(r) ==
  /\ r \in 1..Len(reqs)
  /\ reqs[r].ctx
  /\ Calls < MaxProgress
  /\ LET p == progress(busy, reqs[r].id, r) IN
       /\ outbox' = outbox \o Post(r, p.posted)
       /\ ulast' = ULast("progress", r, p.kind, p.msg, <<>>, 0, NoThrow)
  /\ reqs' = [reqs EXCEPT ![r].calls = @ + 1]
  /\ UNCHANGED <<busy, nextId>>
  /\ UNCHANGED poolSide
  /\ UNCHANGED targetSide
  /\ UNCHANGED libSide

\* the innermost executing task body returns or throws, and its onMessage
\* call runs to its end
Exit(out, error) ==
  /\ Running # {}
  /\ LET r == Innermost
         l == onMessageLeave(busy, r, out, error) IN
       /\ busy' = l.busy
       /\ outbox' = outbox \o Post(r, l.posted)
       /\ reqs' = [reqs EXCEPT ![r].state = "done"]
       /\ ulast' = ULast("exit", r, out, <<>>, <<>>, 0, error)
  /\ UNCHANGED nextId
  /\ UNCHANGED poolSide
  /\ UNCHANGED targetSide
  /\ UNCHANGED libSide

\* how a task body ends
ExitInputs ==
  {[out |-> "return", error |-> NoThrow],
   [out |-> "throw", error |-> TaskFailure],
   [out |-> "throw", error |-> NotAnError]}

NextUnit ==
  \/ \E type \in TypeInputs : Deliver(type)
  \/ \E r \in 1..MaxRequests : Progress(r)
  \/ \E o \in ExitInputs : Exit(o.out, o.error)

SpecUnit == Init /\ [][NextUnit]_unitSide

\* --------------------------------------------- one Execution Target
\* what a worker can post: the messages of worker.ts, a result in the
\* envelope of the wire format, and the "ready" message
MessageInputs ==
  { [type |-> "start"],
    [type |-> "progress",
     payload |-> [progress |-> "detail", duration |-> Elapsed(1)]],
    [type |-> "result",
     payload |-> [result |-> "value", duration |-> Elapsed(1)]],
    createResult("value", Elapsed(1)),
    createError(messageOf(TaskFailure), Elapsed(1)),
    createError(ErrBusy, NoDuration),
    [type |-> "ready"] }

\* the worker fires a message event; onMessage runs if it is still attached
TargetMessage(data) ==
  /\ delivered < MaxDeliveries
  /\ delivered' = delivered + 1
  /\ IF listening
     THEN LET r == executeOnMessage(listening, finished, tevents, data) IN
          /\ listening' = r.listening
          /\ finished' = r.finished
          /\ tevents' = r.events
     ELSE UNCHANGED <<listening, finished, tevents>>
  /\ UNCHANGED sent
  /\ UNCHANGED poolSide
  /\ UNCHANGED unitSide
  /\ UNCHANGED libSide

\* the worker fires an error event; onError runs if it is still attached
TargetFault ==
  /\ delivered < MaxDeliveries
  /\ delivered' = delivered + 1
  /\ IF listening
     THEN LET r == executeOnError(listening, finished, tevents) IN
          /\ listening' = r.listening
          /\ finished' = r.finished
          /\ tevents' = r.events
     ELSE UNCHANGED <<listening, finished, tevents>>
  /\ UNCHANGED sent
  /\ UNCHANGED poolSide
  /\ UNCHANGED unitSide
  /\ UNCHANGED libSide

\* the setTimeout callback of executeTask posts the request
TargetSend ==
  /\ ~sent
  /\ sent' = TRUE
  /\ UNCHANGED <<listening, finished, tevents, delivered>>
  /\ UNCHANGED poolSide
  /\ UNCHANGED unitSide
  /\ UNCHANGED libSide

NextTarget ==
  \/ \E data \in MessageInputs : TargetMessage(data)
  \/ TargetFault
  \/ TargetSend

SpecTarget == Init /\ [][NextTarget]_targetSide

\* ------------------------------------------------------ calls on a grid
\* wrapBuffer(new Uint8Array(len), [w, h])
WrapBuffer(w, h, len) ==
  /\ grid = NoGrid
  /\ LET r == wrapBuffer([i \in 1..len |-> 0], <<w, h>>) IN
       /\ grid' = r.grid
       /\ lret' = LRet("wrapBuffer", <<w, h, len>>, r.kind, r.msg, 0)
  /\ UNCHANGED gcalls
  /\ UNCHANGED <<poolSide, unitSide, targetSide>>

GetIndex(x, y, noCheck) ==
  /\ grid # NoGrid
  /\ gcalls < MaxCalls
  /\ LET r == getIndex(grid, x, y, noCheck) IN
       lret' = LRet("getIndex", [x |-> x, y |-> y, noCheck |-> noCheck],
                    r.kind, r.msg, r.value)
  /\ gcalls' = gcalls + 1
  /\ UNCHANGED grid
  /\ UNCHANGED <<poolSide, unitSide, targetSide>>

Get(x, y, noCheck) ==
  /\ grid # NoGrid
  /\ gcalls < MaxCalls
  /\ LET r == get(grid, x, y, noCheck) IN
       lret' = LRet("get", [x |-> x, y |-> y, noCheck |-> noCheck],
                    r.kind, r.msg, r.value)
  /\ gcalls' = gcalls + 1
  /\ UNCHANGED grid
  /\ UNCHANGED <<poolSide, unitSide, targetSide>>

Set(x, y, value, noCheck) ==
  /\ grid # NoGrid
  /\ gcalls < MaxCalls
  /\ LET r == set(grid, x, y, value, noCheck) IN
       /\ grid' = [grid EXCEPT !.buffer = r.buffer]
       /\ lret' = LRet("set", [x |-> x, y |-> y, noCheck |-> noCheck,
                               value |-> value],
                       r.kind, r.msg, 0)
  /\ gcalls' = gcalls + 1
  /\ UNCHANGED <<poolSide, unitSide, targetSide>>

\* getNeighbors(grid, {x, y}), iterated to its end
GetNeighbors(x, y) ==
  /\ grid # NoGrid
  /\ gcalls < MaxCalls
  /\ lret' = LRet("getNeighbors", [x |-> x, y |-> y], "return", "",
                  getNeighbors(grid, [x |-> x, y |-> y]))
  /\ gcalls' = gcalls + 1
  /\ UNCHANGED grid
  /\ UNCHANGED <<poolSide, unitSide, targetSide>>

\* sizes from 1 to MaxSide, storage of the matching length and one longer,
\* coordinates on the grid and one step off it on either side, and values
\* to store: a byte (255) and a number that is not a byte (256)
NextGrid ==
  \/ \E w, h \in 1..MaxSide : \E len \in {w * h, w * h + 1} :
       WrapBuffer(w, h, len)
  \/ \E x, y \in -1..MaxSide :
       \E noCheck \in BOOLEAN : GetIndex(x, y, noCheck)
  \/ \E x, y \in -1..MaxSide :
       \E noCheck \in BOOLEAN : Get(x, y, noCheck)
  \/ \E x, y \in -1..MaxSide :
       \E v \in {255, 256} : \E noCheck \in BOOLEAN :
         Set(x, y, v, noCheck)
  \/ \E x, y \in -1..MaxSide :
       GetNeighbors(x, y)

SpecGrid == Init /\ [][NextGrid]_libSide

\* ------------------------------------------------- calls of TypeHandler.is
\* the strings of at most MaxTypeLen characters
TypeStrings ==
  UNION {[1..n -> {"t", "e", "g", "/"}] : n \in 0..MaxTypeLen}

Is(handlerType, type) ==
  /\ lret' = LRet("is", [handler |-> handlerType, type |-> type], "return",
                  "", is(handlerType, type))
  /\ UNCHANGED <<grid, gcalls>>
  /\ UNCHANGED <<poolSide, unitSide, targetSide>>

NextIs == \E h \in handlers : \E t \in TypeStrings : Is(h, t)

SpecIs == Init /\ [][NextIs]_libSide

\* ------------------------------------------------- failures at start-up
\* #createWorker rejects: the factory threw (spawn failure) or the unit's
\* error event fired before its "ready" message (waitForReady rejects).
\* The unit never joins the pool.
StartFailed(u) ==
  /\ NextStarting(u)
  /\ ustate' = [ustate EXCEPT ![u] = "failed"]
  /\ poolEvents' = constructorSettled(poolEvents, promiseAll(ustate),
                                      promiseAll(ustate'))
  /\ ret' = Ret("event", NoCaller, "return", "", NoUnit)
  /\ quiet' = NoWatch
  /\ UNCHANGED <<workers, available, pending, maxPending, timers, pc, held,
                 waitOrder, streak>>
  /\ UNCHANGED unitSide
  /\ UNCHANGED targetSide
  /\ UNCHANGED libSide

NextStart ==
  \/ \E u \in Units : WorkerReady(u)
  \/ \E u \in Units : StartFailed(u)
  \/ \E u \in Units : WorkerError(u)
  \/ \E c \in Callers : Acquire(c)
  \/ \E c \in Callers : Release(c)
  \/ TimerFire
  \/ Close

SpecStart == Init /\ [][NextStart]_<<vars, poolEvents>>

\* ------------------------------------------------ the maxPending setter
\* The values assigned: the halves from -1 to MaxSetPending + 1/2, Infinity
\* and NaN.
SetterInputs ==
  {Num(n, 2) : n \in -2..(2 * MaxSetPending + 1)} \cup {PosInfinity, NaN}

\* set maxPending(value), value any number
SetMaxPendingTo(x) ==
  /\ LET r == setMaxPending(maxPending, x) IN
       /\ maxPending' = r.maxPending
       /\ ret' = [Ret("setMaxPending", NoCaller, r.kind, r.msg, NoUnit)
                    EXCEPT !.arg = x]
  /\ quiet' = NoWatch
  /\ UNCHANGED <<workers, available, pending, timers, ustate, pc, held,
                 waitOrder, streak>>
  /\ UNCHANGED poolEvents
  /\ UNCHANGED unitSide
  /\ UNCHANGED targetSide
  /\ UNCHANGED libSide

NextCap ==
  \/ \E u \in Units : WorkerReady(u)
  \/ \E x \in SetterInputs : SetMaxPendingTo(x)
  \/ \E c \in Callers : Acquire(c)
  \/ \E c \in Callers : Release(c)
  \/ TimerFire

SpecCap == Init /\ [][NextCap]_vars

\* ------------------------------------------- release() of a non-member unit
\* Any code that has a reference to a Worker can call release() with it: a
\* unit the pool never created, one that is still starting, one that was
\* evicted by its error event, or one that close() terminated.
ReleaseStray(u) ==
  /\ ~Includes(workers, u)
  /\ LET r == release(workers, available, pending, u) IN
       /\ available' = r.available
       /\ pending' = r.pending
       /\ timers' = timers \o r.timer
       /\ ret' = Ret("release", NoCaller, r.kind, r.msg, u)
  /\ streak' = Restart(workers, available', pending')
  /\ quiet' = NoWatch
  /\ UNCHANGED <<workers, maxPending, ustate, pc, held, waitOrder>>
  /\ UNCHANGED poolEvents
  /\ UNCHANGED unitSide
  /\ UNCHANGED targetSide
  /\ UNCHANGED libSide

NextRelease ==
  \/ \E u \in Units : WorkerReady(u)
  \/ \E u \in Units : WorkerError(u)
  \/ \E c \in Callers : Acquire(c)
  \/ \E c \in Callers : Release(c)
  \/ \E u \in Units \cup {ForeignUnit} : ReleaseStray(u)
  \/ TimerFire
  \/ Close

SpecRelease == Init /\ [][NextRelease]_vars

\* ------------------------------------------- release() of any member unit
\* release() takes any Worker: code that still has a reference to a member
\* unit can hand it in again, whether it is idle, held by another call or on
\* its way to one. The idle list is kept to NumUnits + 1 entries.
ReleaseMember(u) ==
  /\ Includes(workers, u)
  /\ Len(available) <= NumUnits
  /\ LET r == release(workers, available, pending, u) IN
       /\ available' = r.available
       /\ pending' = r.pending
       /\ timers' = timers \o r.timer
       /\ ret' = Ret("release", NoCaller, r.kind, r.msg, u)
  /\ streak' = Restart(workers, available', pending')
  /\ quiet' = NoWatch
  /\ UNCHANGED <<workers, maxPending, ustate, pc, held, waitOrder>>
  /\ UNCHANGED poolEvents
  /\ UNCHANGED unitSide
  /\ UNCHANGED targetSide
  /\ UNCHANGED libSide

NextMember ==
  \/ \E u \in Units : WorkerReady(u)
  \/ \E u \in Units : WorkerError(u)
  \/ \E c \in Callers : Acquire(c)
  \/ \E c \in Callers : Release(c)
  \/ \E u \in Units : ReleaseMember(u)
  \/ TimerFire
  \/ Close

SpecMember == Init /\ [][NextMember]_vars

\* ------------------------------------- a pool without faults and close()
NextLive ==
  \/ \E u \in Units : WorkerReady(u)
  \/ \E c \in Callers : Acquire(c)
  \/ \E c \in Callers : Release(c)
  \/ TimerFire
  \/ \E c \in Callers : WithStart(c)
  \/ \E c \in Callers : \E out \in {"return", "throw"} : WithExit(c, out)

\* The event loop runs every callback handed to setTimeout, and every call
\* that is handed a unit goes on to release it: acquire()'s caller calls
\* release(), the task of with() settles.
Fairness ==
  /\ WF_vars(TimerFire)
  /\ \A c \in Callers : WF_vars(Release(c))
  /\ \A c \in Callers :
       WF_vars(\E out \in {"return", "throw"} : WithExit(c, out))

SpecLive == Init /\ [][NextLive]_vars /\ Fairness

\* ------------------------------------------ the same pool, with faults
NextFault ==
  \/ \E u \in Units : WorkerReady(u)
  \/ \E u \in Units : WorkerError(u)
  \/ \E c \in Callers : Acquire(c)
  \/ \E c \in Callers : Release(c)
  \/ TimerFire
  \/ Close
  \/ \E c \in Callers : WithStart(c)
  \/ \E c \in Callers : WithRejected(c)
  \/ \E c \in Callers : \E out \in {"return", "throw"} : WithExit(c, out)

SpecFault == Init /\ [][NextFault]_vars /\ Fairness

TypeOK ==
  /\ Range(workers) \subseteq Units
  /\ Range(available) \subseteq Units
  /\ Range(pending) \subseteq Callers
  /\ streak \in -1..(NumUnits + 1)

\* ================================================================= claims
HandOps == {"acquire", "withAcquire", "fulfil"}
\* the last operation handed a unit to a caller
Handed == ret.op \in HandOps /\ ret.kind = "return"
\* this step is caller c's call of acquire() (directly or inside with())
AcquireCalled(c) == pc[c] = "idle" /\ pc'[c] # "idle"
\* number of places (idle list, scheduled hand-offs) that hold unit u
Places(u) ==
  Cardinality({i \in 1..Len(available) : available[i] = u})
    + Cardinality({i \in 1..Len(timers) : timers[i].w = u})
Scheduled(c) == \E i \in 1..Len(timers) : timers[i].d = c

\* C1: when callers release only units they hold, and once, no unit is held
\* by two callers at the same time, and a held unit is neither on the idle
\* list nor scheduled for a hand-off.
C1_NoUnitHeldTwice ==
  /\ \A a, b \in Callers : (a # b /\ held[a] # NoUnit) => held[a] # held[b]
  /\ \A a \in Callers : held[a] # NoUnit => Places(held[a]) = 0

C1_Witness ==
  /\ ret.op = "fulfil" /\ ret.kind = "return"
  /\ \E a \in Callers : a # ret.c /\ held[a] # NoUnit

\* C2: starting from a pool whose NumUnits units are all idle with an empty
\* queue, the k-th successive acquire() (k <= NumUnits) returns a unit at
\* once, the k holders hold distinct units and nothing is queued; the
\* (NumUnits+1)-th, with maxPending >= 1, is queued; and a queued caller is
\* fulfilled only through a hand-off that a release() scheduled while the
\* caller was in the queue.
C2_AfterStreak ==
  /\ streak \in 1..NumUnits =>
       /\ ret.op \in {"acquire", "withAcquire"} => ret.kind = "return"
       /\ Cardinality({held[c] : c \in Callers} \ {NoUnit}) = streak
       /\ Cardinality({c \in Callers : held[c] # NoUnit}) = streak
       /\ Len(available) = NumUnits - streak
       /\ pending = <<>>
  /\ (streak = NumUnits + 1 /\ ret.op \in {"acquire", "withAcquire"}
        /\ maxPending >= 1) =>
       /\ ret.kind = "defer"
       /\ pending = <<ret.c>>
       /\ Waiting(ret.c)
       /\ held[ret.c] = NoUnit

C2_OnlyByRelease ==
  /\ Len(timers') > Len(timers) =>
       /\ ret'.op \in {"release", "with"}
       /\ Includes(pending, timers'[Len(timers')].d)
  /\ (\E c \in Callers : Waiting(c) /\ held'[c] # NoUnit) =>
       /\ ret'.op = "fulfil"
       /\ Scheduled(ret'.c)
       /\ held'[ret'.c] # NoUnit

C2_AcquireUpToSize == []C2_AfterStreak /\ [][C2_OnlyByRelease]_vars

C2_Witness ==
  /\ streak = NumUnits + 1 /\ ret.kind = "defer" /\ maxPending >= 1

\* C3: a release() that finds callers queued schedules the hand-off of its
\* unit to the caller that has waited longest without a scheduled hand-off,
\* and each fulfilment goes to the caller that has waited longest of all.
C3_FifoHandOff ==
  [][ /\ Len(timers') > Len(timers) =>
           LET t == timers'[Len(timers')]
               q == SelectSeq(waitOrder, LAMBDA c : ~Scheduled(c))
           IN  /\ q # <<>>
               /\ t.d = Head(q)
               /\ t.w = ret'.unit
               /\ ~Includes(pending', t.d)
      /\ (ret'.op = "fulfil" /\ ret'.kind = "return") =>
           /\ ret'.c = Head(waitOrder)
           /\ ret'.unit = Head(timers).w
    ]_vars

C3_Witness ==
  /\ ret.op = "release" /\ ret.kind = "return"
  /\ Len(timers) >= 1 /\ Len(pending) >= 2

\* C4 as stated: whenever no unit is idle and the queue is at or above
\* maxPending, acquire() fails with the capacity error and leaves the queue
\* unchanged.
C4_Original ==
  [][ \A c \in Callers :
        (AcquireCalled(c) /\ Len(available) = 0 /\ Len(pending) >= maxPending)
          => (ret'.acqErr = ErrMaxPending /\ pending' = pending)
    ]_vars

\* C4 amended: the same, on a pool that has at least one member unit.
C4_CapacityError ==
  [][ \A c \in Callers :
        (AcquireCalled(c) /\ Len(workers) > 0 /\ Len(available) = 0
           /\ Len(pending) >= maxPending)
          => (ret'.acqErr = ErrMaxPending /\ ret'.kind = "throw"
                /\ pending' = pending /\ ~Waiting(c)')
    ]_vars

C4_Witness ==
  /\ ret.acqErr = ErrMaxPending /\ ret.kind = "throw"
  /\ Len(workers) > 0 /\ Len(available) = 0 /\ Len(pending) >= maxPending

\* C5: with(task) releases the acquired unit exactly once however task
\* exits (the unit is then in exactly one place: the idle list or one
\* scheduled hand-off), releases nothing when acquire failed, and a with()
\* call that ran alone on a pool with nobody queued leaves the available
\* count as it found it.
C5_WithReleasesOnce ==
  ret.op = "with" =>
    /\ ret.unit # NoUnit => ret.relCalls = 1
    /\ ret.unit = NoUnit => ret.relCalls = 0
    /\ (ret.unit # NoUnit /\ ret.relErr = "") => Places(ret.unit) = 1
    /\ ret.avail0 # -1 => Len(available) = ret.avail0

C5_Witness ==
  /\ ret.op = "with" /\ ret.taskErr = TaskError /\ ret.avail0 >= 1

\* C6: a with() that fails throws an aggregate whose message names a phase
\* that did fail and whose errors list holds that phase's error; a with() in
\* which no phase failed returns the task's value.
C6_WithAggregate ==
  ret.op = "with" =>
    IF ret.kind = "throw"
    THEN \/ ret.msg = AggAcquire /\ ret.acqErr # ""
              /\ ret.errors = <<ret.acqErr>>
         \/ ret.msg = AggTask /\ ret.taskErr # ""
              /\ ret.errors = <<ret.taskErr>>
         \/ ret.msg = AggRelease /\ ret.relErr # ""
              /\ ret.errors = <<ret.relErr>>
    ELSE /\ ret.kind = "return"
         /\ ret.value = TaskValue
         /\ ret.acqErr = "" /\ ret.taskErr = "" /\ ret.relErr = ""

C6_Witness ==
  /\ ret.op = "with" /\ ret.msg = AggTask /\ ret.errors = <<TaskError>>

\* C7 as stated: a unit that has reported a fault is never afterwards
\* returned by acquire() nor delivered to a pending acquisition.
C7_Claim == Handed => ustate[ret.unit] # "faulted"

\* C8 as stated: after close() returns no acquisition is left pending in
\* the queue, every member unit is terminated and size, available and
\* pending are 0.
C8_Claim ==
  ret.op = "close" =>
    /\ Len(workers) = 0 /\ Len(available) = 0 /\ Len(pending) = 0
    /\ \A c \in Callers : Waiting(c) => Scheduled(c)
    /\ \A u \in Units : ustate[u] # "ready"

\* C9: close() on a pool that has no units, or directly after another
\* close(), changes nothing: no collection, no unit and no caller.
C9_CloseIdempotent ==
  [][ (ret'.op = "close" /\ (Len(workers) = 0 \/ ret.op = "close")) =>
        UNCHANGED <<workers, available, pending, maxPending, timers,
                    ustate, pc, held>>
    ]_vars

C9_Witness ==
  /\ ret.op = "close" /\ ret.kind = "noop"
  /\ \E u \in Units : ustate[u] = "terminated"

\* C10: acquire() on a pool with zero member units fails with 'No workers
\* in pool', and an acquire() that fails leaves the queue as it was.
C10_NoWorkersNoPhantom ==
  [][ \A c \in Callers : AcquireCalled(c) =>
        /\ Len(workers) = 0 =>
             (ret'.acqErr = ErrNoWorkers /\ ret'.kind = "throw")
        /\ ret'.acqErr # "" =>
             (pending' = pending /\ waitOrder' = waitOrder /\ ~Waiting(c)')
        /\ ret'.acqErr \in {"", ErrNoWorkers, ErrMaxPending}
    ]_vars

C10_Witness ==
  /\ ret.op = "acquire" /\ ret.acqErr = ErrNoWorkers /\ Len(pending) > 0

\* C11: release(unit) with a unit that is not a member of the pool (never
\* created by it, still starting, evicted by its error event, or terminated
\* by close()) throws 'Worker is not in pool' and leaves the idle list, the
\* pending queue and the scheduled hand-offs as they were.
C11_ReleaseNonMember ==
  [][ (ret'.op = "release" /\ ~Includes(workers, ret'.unit)) =>
        /\ ret'.kind = "throw" /\ ret'.msg = ErrNotInPool
        /\ UNCHANGED <<workers, available, pending, timers>>
    ]_vars

C11_Witness ==
  /\ ret.op = "release" /\ ret.kind = "throw" /\ ret.msg = ErrNotInPool
  /\ ret.unit \in Units /\ ustate[ret.unit] = "faulted"
  /\ Len(pending) > 0

\* WorkerPool.size (the getter)
size == Len(workers)

\* C13: the value reported by `size` equals the size given to the
\* constructor in every state after construction.
C13_Claim == size = NumUnits

\* C14: assigning maxPending a negative or non-integer value throws the
\* RangeError and leaves maxPending as it was; assigning a non-negative
\* integer succeeds whatever the state of the pool, and an acquire() called
\* next is refused for capacity exactly when the queue has reached that value.
C14_SetMaxPending ==
  [][ /\ ret'.op = "setMaxPending" =>
           LET x == ret'.arg IN
           IF x.d # 0 /\ x.n >= 0 /\ x.n % x.d = 0
           THEN ret'.kind = "return" /\ maxPending' * x.d = x.n
           ELSE /\ ret'.kind = "throw" /\ ret'.msg = ErrRange
                /\ maxPending' = maxPending
      /\ (ret.op = "setMaxPending" /\ ret.kind = "return") =>
           \A c \in Callers :
             (AcquireCalled(c) /\ Len(workers) > 0 /\ Len(available) = 0) =>
               (ret'.acqErr = ErrMaxPending
                  <=> Len(pending) * ret.arg.d >= ret.arg.n)
    ]_vars

C14_Witness ==
  /\ ret.op = "setMaxPending" /\ ret.kind = "throw"
  /\ ret.arg.d = 2 /\ ret.arg.n = 1
  /\ maxPending = 0 /\ Len(pending) > 0

\* C12: the pool dispatches 'ready' only when every unit has confirmed
\* readiness and joined the pool; once the spawn or the handshake of a unit
\* has failed it has dispatched 'error' and never dispatches 'ready'; it
\* dispatches at most one event.
C12_StartEvents ==
  /\ Includes(poolEvents, "ready") =>
        \A u \in Units : ustate[u] \notin {"starting", "failed"}
  /\ (\E u \in Units : ustate[u] = "failed") => poolEvents = <<"error">>
  /\ Len(poolEvents) <= 1

C12_Witness ==
  /\ poolEvents = <<"error">>
  /\ ustate[NumUnits] = "ready" /\ Len(workers) = NumUnits - 1

\* the types of the messages posted by the code of request r, in order
TypesOf(r) ==
  LET mine == SelectSeq(outbox, LAMBDA e : e.req = r) IN
  [i \in 1..Len(mine) |-> typeOf(mine[i].data)]

\* C15: the messages of every request are ordered: at most one start, then
\* progress messages, then exactly one terminal message (type "result" or
\* "error") once the request is done, and nothing after it.
C15_Claim ==
  \A r \in 1..Len(reqs) :
    LET ts == TypesOf(r)
        terminal == {i \in 1..Len(ts) : ts[i] \in {"result", "error"}} IN
    /\ \A i \in 1..Len(ts) :
         /\ ts[i] \in {"start", "progress", "result", "error"}
         /\ ts[i] = "start" => i = 1
         /\ ts[i] = "progress" => (i > 1 /\ ts[1] = "start")
    /\ reqs[r].state = "done" => (Len(ts) >= 1 /\ terminal = {Len(ts)})
    /\ reqs[r].state = "running" => terminal = {}

\* the last step ended the processing of a request
Finished(u) == u.op = "exit" \/ (u.op = "deliver" /\ u.kind = "throw")

\* C16: when the unit has finished processing a request, whatever the
\* outcome, busy is cleared, and a request delivered next is not refused as
\* busy.
C16_IdleAgain ==
  /\ [](Finished(ulast) => busy = NotBusy)
  /\ [][ (Finished(ulast) /\ ulast'.op = "deliver") => ulast'.msg # ErrBusy
       ]_unitSide

C16_Witness ==
  /\ ulast.op = "deliver" /\ ulast.kind = "run" /\ ulast.req = 3
  /\ reqs[1].ctx /\ reqs[1].state = "done"
  /\ ~reqs[2].ctx
  /\ outbox[Len(outbox) - 2].data = createError(messageOf(TaskFailure),
                                                 Elapsed(1))

\* C17: a request delivered while the task body of another request is
\* executing is refused with 'Worker is busy' without a task body of its own,
\* the unit stays busy with the id of the executing request, and the
\* progress() calls of the executing request succeed.
C17_Claim ==
  /\ (ulast.op = "deliver" /\ ulast.outer # 0) =>
       /\ ulast.kind = "throw" /\ ulast.msg = ErrBusy
       /\ ~reqs[ulast.req].ctx
       /\ busy = reqs[ulast.outer].id
  /\ (ulast.op = "progress" /\ Running # {} /\ ulast.req = Innermost) =>
       ulast.kind = "return"

\* C18: a task body that throws yields, as the last message of its request,
\* an error message with the message of the error thrown (the fixed text for
\* a thrown value that is not an Error) and the time elapsed since its context
\* was built; the request has no result message, busy is cleared, and a
\* request for a registered task delivered next is started.
C18_BodyThrows ==
  /\ []( (ulast.op = "exit" /\ ulast.kind = "throw") =>
           LET r == ulast.req
               last == outbox[Len(outbox)] IN
           /\ last.req = r
           /\ typeOf(last.data) = "error"
           /\ last.data.payload.message =
                (IF ulast.error.isError THEN ulast.error.message
                 ELSE ErrUnknown)
           /\ last.data.payload.duration = Elapsed(r)
           /\ \A i \in 1..Len(outbox) :
                outbox[i].req = r =>
                  (typeOf(outbox[i].data) # "result"
                     /\ "result" \notin DOMAIN outbox[i].data)
           /\ busy = NotBusy )
  /\ [][ (ulast.op = "exit" /\ ulast.kind = "throw"
            /\ ulast'.op = "deliver" /\ ulast'.type = <<"t", "/", "g">>) =>
           (ulast'.kind = "run"
              /\ outbox' = Append(outbox, [req |-> ulast'.req,
                                           data |-> [type |-> "start"]]))
       ]_unitSide

C18_Witness ==
  /\ ulast.op = "deliver" /\ ulast.kind = "run" /\ ulast.req = 2
  /\ ulast.type = <<"t", "/", "g">>
  /\ reqs[1].ctx /\ reqs[1].state = "done"
  /\ outbox[Len(outbox) - 1] =
       [req |-> 1, data |-> [type |-> "error",
                             payload |-> [message |-> <<"task failed">>,
                                          duration |-> Elapsed(1)]]]

\* the positions of "/" in a type string, the category before the first one
\* and the subtype between the first and the second one
Slashes(t) == {i \in 1..Len(t) : t[i] = "/"}
FirstSlash(t) == CHOOSE i \in Slashes(t) : \A j \in Slashes(t) : i <= j
CategoryOf(t) == IF Slashes(t) = {} THEN t ELSE SubSeq(t, 1, FirstSlash(t) - 1)
SubTypeEnd(t) ==
  LET later == {i \in Slashes(t) : i > FirstSlash(t)} IN
  IF later = {} THEN Len(t)
  ELSE (CHOOSE i \in later : \A j \in later : i <= j) - 1
Unregistered(t) ==
  \/ Slashes(t) = {}
  \/ CategoryOf(t) \notin handlers
  \/ SubSeq(t, FirstSlash(t) + 1, SubTypeEnd(t)) \notin tasks(CategoryOf(t))

\* C19: a request whose type has no "/", whose category has no handler or
\* whose subtype has no task in that category ends with one error message
\* and nothing else: no start message, no context, no task body.
C19_LookupFails ==
  (ulast.op = "deliver" /\ Unregistered(ulast.type)) =>
    /\ ulast.kind = "throw"
    /\ ~reqs[ulast.req].ctx /\ reqs[ulast.req].state = "done"
    /\ TypesOf(ulast.req) = <<"error">>

C19_Witness ==
  /\ ulast.op = "deliver" /\ ulast.type = <<"t">>
  /\ ulast.msg = MissingTask(<<"t">>)
  /\ outbox[Len(outbox)].data.payload.message = MissingTask(<<"t">>)
  /\ Len(reqs) >= 2

\* the positions of the terminal events among the events dispatched
Terminals == {i \in 1..Len(tevents) : tevents[i].type \in {"result", "error"}}

\* C20: the target dispatches at most one terminal event (result or error),
\* and once it has dispatched it, no event of the worker makes it dispatch
\* anything more.
C20_OneTerminal ==
  /\ [](Cardinality(Terminals) <= 1 /\ Terminals \subseteq {Len(tevents)})
  /\ [][ Terminals # {} => tevents' = tevents ]_targetSide

C20_Witness ==
  /\ Terminals = {Len(tevents)}
  /\ Len(tevents) >= 2
  /\ delivered >= Len(tevents) + 2

\* request r is not the one the unit is serving: it is done, or the task
\* body of a request delivered later is executing
Stale(r) == reqs[r].state = "done" \/ r # Innermost

\* C21 as stated: progress() on the context of a request the unit is not
\* serving throws 'Task is not active' and posts nothing, whatever requests
\* the unit has served.
C21_Original ==
  [][ (ulast'.op = "progress" /\ Stale(ulast'.req)) =>
        (ulast'.kind = "throw" /\ ulast'.msg = ErrNotActive
           /\ outbox' = outbox)
    ]_unitSide

\* the id of request r was drawn again for a request that is executing
IdReused(r) ==
  \E q \in Running : q # r /\ reqs[q].id = reqs[r].id

\* C21 amended: the same, as long as the id of the context's request has not
\* been drawn again for a request that is executing.
C21_StaleProgress ==
  [][ (ulast'.op = "progress" /\ Stale(ulast'.req)
         /\ ~IdReused(ulast'.req)) =>
        (ulast'.kind = "throw" /\ ulast'.msg = ErrNotActive
           /\ outbox' = outbox)
    ]_unitSide

C21_Witness ==
  /\ ulast.op = "progress" /\ ulast.kind = "throw"
  /\ reqs[ulast.req].state = "done"
  /\ Running # {} /\ truthy(busy)

\* the ids drawn from the generator, in the order of the calls
Drawn ==
  LET drew == SelectSeq(reqs, LAMBDA q : q.id # NoId) IN
  [i \in 1..Len(drew) |-> drew[i].id]

\* C22: the first id is 0; each later id is the one before plus 1, or 0 where
\* that would be the maximum M; every id is in 0..M-1; M consecutive ids are
\* pairwise distinct.
C22_IdGen ==
  /\ Len(Drawn) >= 1 => Drawn[1] = 0
  /\ \A i \in 2..Len(Drawn) :
       Drawn[i] = (IF Drawn[i - 1] + 1 = MaxSafeInteger THEN 0
                   ELSE Drawn[i - 1] + 1)
  /\ \A i \in 1..Len(Drawn) : Drawn[i] \in 0..(MaxSafeInteger - 1)
  /\ \A i, j \in 1..Len(Drawn) :
       (i < j /\ j - i < MaxSafeInteger) => Drawn[i] # Drawn[j]

C22_Witness ==
  /\ Len(Drawn) = MaxSafeInteger + 1
  /\ Drawn[Len(Drawn)] = 0 /\ Drawn[Len(Drawn) - 1] = MaxSafeInteger - 1

\* C28: while the task body of an accepted request is executing, busy holds
\* a value that `if (busy)` takes as true, so that another request is refused.
C28_Claim == Running # {} => truthy(busy)

\* C26: a release() that succeeds while acquisitions are pending takes the
\* oldest Deferred off the queue and leaves the idle list as it was; the
\* caller of that Deferred is still waiting when release() returns and gets
\* the unit from a timer callback; a unit on its way to a caller is not on
\* the idle list.
C26_HandOff ==
  /\ [](\A i \in 1..Len(timers) : ~Includes(available, timers[i].w))
  /\ [][ (ret'.op = "release" /\ ret'.kind = "return" /\ Len(pending) > 0) =>
           LET d == Head(pending) IN
           /\ pending' = Tail(pending)
           /\ available' = available
           /\ timers' = Append(timers, [d |-> d, w |-> ret'.unit])
           /\ pc'[d] = pc[d] /\ held'[d] = held[d]
           /\ Waiting(d) => held[d] = NoUnit
       ]_vars

C26_Witness ==
  /\ ret.op = "release" /\ ret.kind = "return"
  /\ Len(timers) > 0
  /\ LET t == timers[Len(timers)] IN
       /\ t.w = ret.unit /\ pc[t.d] = "waiting" /\ held[t.d] = NoUnit
  /\ Len(available) > 0 /\ Len(pending) > 0

\* C27: a with() call whose task failed throws the 'Worker task failed'
\* aggregate that carries the task's error.
C27_Claim ==
  (ret.op = "with" /\ ret.taskErr # "") =>
    (ret.kind = "throw" /\ ret.msg = AggTask /\ ret.errors = <<ret.taskErr>>)

\* C30: the pending queue is non-empty only if the idle list is empty.
C30_Claim == Len(pending) > 0 => Len(available) = 0

\* C23: on a wrapped storage of length width * height, getIndex(x, y) is
\* x + y * width for every cell of the grid, and get(x, y) called after
\* set(x, y, v), v a byte, returns v.
C23_IndexRoundTrip ==
  [][ /\ (lret'.op = "getIndex" /\ isInBounds(grid, lret'.args.x, lret'.args.y)) =>
           (lret'.kind = "return"
              /\ lret'.value = lret'.args.x + lret'.args.y * grid.size[1])
      /\ (lret.op = "set" /\ lret'.op = "get"
            /\ isInBounds(grid, lret.args.x, lret.args.y)
            /\ lret.args.value \in 0..255
            /\ lret'.args.x = lret.args.x /\ lret'.args.y = lret.args.y) =>
           (lret.kind = "return" /\ lret'.kind = "return"
              /\ lret'.value = lret.args.value)
    ]_libSide

C23_Witness ==
  /\ lret.op = "get" /\ lret.value = 255 /\ gcalls = 2
  /\ lret.args.x = grid.size[1] - 1 /\ lret.args.y = grid.size[2] - 1
  /\ grid.size[1] >= 2 /\ grid.size[2] >= 2 /\ grid.size[1] # grid.size[2]

\* C24: with the bounds check on, getIndex, get and set throw the RangeError
\* for every (x, y) off the grid, and the storage is as it was.
C24_OutOfBounds ==
  [][ (lret'.op \in {"getIndex", "get", "set"} /\ ~lret'.args.noCheck
         /\ ~isInBounds(grid, lret'.args.x, lret'.args.y)) =>
        (lret'.kind = "throw" /\ lret'.msg = ErrIndex /\ grid' = grid)
    ]_libSide

C24_Witness ==
  /\ lret.op = "set" /\ lret.kind = "throw" /\ gcalls = 1
  /\ lret.args.x = grid.size[1] /\ lret.args.y = 0
  /\ grid.size[2] >= 2
  /\ \A i \in 1..Len(grid.buffer) : grid.buffer[i] = 0

\* C25: on a grid at least 2 wide and 2 high getNeighbors yields 2 cells for
\* a corner cell, 3 for another edge cell and 4 for an interior cell, all
\* different, each on the grid and one step left, right, up or down.
C25_Neighbors ==
  (lret.op = "getNeighbors" /\ grid.size[1] >= 2 /\ grid.size[2] >= 2
     /\ isInBounds(grid, lret.args.x, lret.args.y)) =>
    LET cells == lret.value
        x == lret.args.x
        y == lret.args.y
        \* the number of grid borders the point lies on
        borders ==
          (IF x = 0 THEN 1 ELSE 0) + (IF x = grid.size[1] - 1 THEN 1 ELSE 0)
          + (IF y = 0 THEN 1 ELSE 0)
          + (IF y = grid.size[2] - 1 THEN 1 ELSE 0) IN
    /\ Len(cells) = 4 - borders
    /\ \A i \in 1..Len(cells) :
         /\ isInBounds(grid, cells[i].x, cells[i].y)
         /\ \/ cells[i].y = y /\ cells[i].x \in {x - 1, x + 1}
            \/ cells[i].x = x /\ cells[i].y \in {y - 1, y + 1}
         /\ cells[i].value
              = grid.buffer[cells[i].x + cells[i].y * grid.size[1] + 1]
    /\ \A i, j \in 1..Len(cells) :
         i # j => <<cells[i].x, cells[i].y>> # <<cells[j].x, cells[j].y>>

C25_Witness ==
  /\ lret.op = "getNeighbors" /\ Len(lret.value) = 4
  /\ grid.size[1] >= 3 /\ grid.size[2] >= 3
  /\ \E i \in 1..4 : lret.value[i].value = 255

\* C29: TypeHandler.is(t) is true exactly when t starts with the handler's
\* category name followed by "/".
C29_Claim ==
  lret.op = "is" =>
    (lret.value <=> startsWith(lret.args.type, lret.args.handler \o <<"/">>))

\* C34: `finished` is true exactly when the target has dispatched a
\* terminal event (result or error), whichever listener dispatched it.
C34_Claim == finished <=> Terminals # {}

\* C35: no caller is handed a unit that close() has terminated; in
\* particular the hand-off a release() scheduled before the close() does not
\* fulfil its caller with the terminated unit.
C35_Claim ==
  (ret.op = "fulfil" /\ ret.kind = "return") =>
    ustate[ret.unit] # "terminated"

\* C31: whatever member unit release() is called with, already idle or
\* already released included, the idle list holds each unit at most once.
C31_Claim ==
  \A i, j \in 1..Len(available) : i # j => available[i] # available[j]

\* C32: without unit faults and without close(), when timers fire and every
\* call that is handed a unit releases it, every acquisition put in the
\* pending queue is in the end fulfilled with a unit.
C32_QueuedFulfilled ==
  \A c \in Callers :
    Waiting(c) ~> (pc[c] \in {"holding", "withTask"} /\ held[c] \in Units)

C32_Witness ==
  /\ ret.op = "fulfil" /\ ret.kind = "return"
  /\ pc[ret.c] \in {"holding", "withTask"} /\ held[ret.c] = ret.unit
  /\ Len(pending) > 0
  /\ Len(available) > 0

\* C33: with unit faults, when timers fire and every call that holds a unit
\* calls release on it, every acquisition put in the pending queue is in the
\* end settled: fulfilled with a unit or rejected.
C33_Claim ==
  \A c \in Callers : Waiting(c) ~> ~Waiting(c)

====
